---- MODULE Spec2Model ----
(***************************************************************************)
(* A model of src/integration/vegamcp_bridge.py: the FastAPI route layer   *)
(* and call_mcp_tool, the bridge that spawns one `node` child per call,    *)
(* writes one JSON-RPC request to it, waits at most 30 seconds and decodes *)
(* the last line of its standard output.                                   *)
(*                                                                         *)
(* Text (a Python str) is a sequence of pieces.  A piece is the newline,   *)
(* the space, or a chunk: a run of characters holding neither.  JSON and   *)
(* Python values are records of one shape (JNull .. JObj) so that values   *)
(* of different kinds can sit in one set.                                  *)
(***************************************************************************)
EXTENDS Integers, Sequences, FiniteSets, TLC

\* ------------------------------------------------------------------ bounds

\* HTTP requests in flight at once (asyncio tasks of the server).
NumRequests == 2
\* Longest standard-output text, in pieces, of the layout alphabet.
MaxStdoutLen == 4
\* The child's standard error is up to STDERR_LIMIT + MaxStderrExtra characters.
MaxStderrExtra == 2

\* stderr.decode()[:500]
STDERR_LIMIT == 500

NL == "\n"
SP == " "

\* ------------------------------------------------------- JSON/Python values

JNull == [k |-> "null", b |-> FALSE, n |-> 0, s |-> <<>>, keys |-> <<>>, vals |-> <<>>]
JBool(x) == [k |-> "bool", b |-> x, n |-> 0, s |-> <<>>, keys |-> <<>>, vals |-> <<>>]
JNum(x) == [k |-> "num", b |-> FALSE, n |-> x, s |-> <<>>, keys |-> <<>>, vals |-> <<>>]
JStr(t) == [k |-> "str", b |-> FALSE, n |-> 0, s |-> t, keys |-> <<>>, vals |-> <<>>]
JList(items) == [k |-> "list", b |-> FALSE, n |-> 0, s |-> <<>>, keys |-> <<>>, vals |-> items]
\* A dict keeps its insertion order: ks[i] maps to vs[i].
JObj(ks, vs) == [k |-> "obj", b |-> FALSE, n |-> 0, s |-> <<>>, keys |-> ks, vals |-> vs]
EmptyObj == JObj(<<>>, <<>>)

\* key in d, for a dict d
Has(d, key) == \E i \in 1..Len(d.keys) : d.keys[i] = key
\* d[key], for a dict d holding key
Get(d, key) == d.vals[CHOOSE i \in 1..Len(d.keys) : d.keys[i] = key]
\* d.get(key, default)
GetOr(d, key, default) == IF Has(d, key) THEN Get(d, key) ELSE default
\* d[key] = v, on a dict built by the handlers (a new key is appended)
Put(d, key, v) ==
    IF Has(d, key)
    THEN JObj(d.keys, [i \in 1..Len(d.vals) |-> IF d.keys[i] = key THEN v ELSE d.vals[i]])
    ELSE JObj(Append(d.keys, key), Append(d.vals, v))

\* Python truth value: `if x:`
Truthy(v) ==
    CASE v.k = "null" -> FALSE
      [] v.k = "bool" -> v.b
      [] v.k = "num" -> v.n # 0
      [] v.k = "str" -> Len(v.s) > 0
      [] v.k = "list" -> Len(v.vals) > 0
      [] OTHER -> Len(v.keys) > 0

RECURSIVE Flat(_)
\* The characters of a text as one string.
Flat(t) == IF t = <<>> THEN "" ELSE Head(t) \o Flat(Tail(t))

RECURSIVE PyRepr(_)
RECURSIVE PyReprItems(_, _, _)
\* repr(v), as a text
PyRepr(v) ==
    CASE v.k = "null" -> <<"None">>
      [] v.k = "bool" -> IF v.b THEN <<"True">> ELSE <<"False">>
      [] v.k = "num" -> <<ToString(v.n)>>
      [] v.k = "str" -> <<"'">> \o v.s \o <<"'">>
      [] v.k = "list" -> <<"[">> \o PyReprItems(<<>>, v.vals, 1) \o <<"]">>
      [] OTHER -> <<"{">> \o PyReprItems(v.keys, v.vals, 1) \o <<"}">>
PyReprItems(ks, vs, i) ==
    IF i > Len(vs) THEN <<>>
    ELSE (IF i > 1 THEN <<",", SP>> ELSE <<>>)
         \o (IF ks = <<>> THEN <<>> ELSE <<"'" \o ks[i] \o "':", SP>>)
         \o PyRepr(vs[i]) \o PyReprItems(ks, vs, i + 1)

\* str(v): a str is itself, everything else its repr
PyStr(v) == IF v.k = "str" THEN v.s ELSE PyRepr(v)

RECURSIVE JsonDumps(_)
RECURSIVE JsonDumpsItems(_, _, _)
\* json.dumps(v), as a text (default separators ", " and ": ")
JsonDumps(v) ==
    CASE v.k = "null" -> <<"null">>
      [] v.k = "bool" -> IF v.b THEN <<"true">> ELSE <<"false">>
      [] v.k = "num" -> <<ToString(v.n)>>
      [] v.k = "str" -> <<"\"">> \o v.s \o <<"\"">>
      [] v.k = "list" -> <<"[">> \o JsonDumpsItems(<<>>, v.vals, 1) \o <<"]">>
      [] OTHER -> <<"{">> \o JsonDumpsItems(v.keys, v.vals, 1) \o <<"}">>
JsonDumpsItems(ks, vs, i) ==
    IF i > Len(vs) THEN <<>>
    ELSE (IF i > 1 THEN <<",", SP>> ELSE <<>>)
         \o (IF ks = <<>> THEN <<>> ELSE <<"\"" \o ks[i] \o "\":", SP>>)
         \o JsonDumps(vs[i]) \o JsonDumpsItems(ks, vs, i + 1)

\* ---------------------------------------------------------------- str methods

IsSpace(p) == p \in {NL, SP}

RECURSIVE lstrip(_)
lstrip(t) == IF t # <<>> /\ IsSpace(Head(t)) THEN lstrip(Tail(t)) ELSE t
RECURSIVE rstrip(_)
rstrip(t) == IF t # <<>> /\ IsSpace(t[Len(t)]) THEN rstrip(SubSeq(t, 1, Len(t) - 1)) ELSE t
\* str.strip()
strip(t) == rstrip(lstrip(t))

RECURSIVE split(_, _)
\* str.split(sep): the texts between the separators, at least one
split(t, sep) ==
    IF \E i \in 1..Len(t) : t[i] = sep
    THEN LET i == CHOOSE j \in 1..Len(t) : t[j] = sep /\ \A h \in 1..(j - 1) : t[h] # sep
         IN <<SubSeq(t, 1, i - 1)>> \o split(SubSeq(t, i + 1, Len(t)), sep)
    ELSE <<t>>

\* seq[-1]
Last(seq) == seq[Len(seq)]

\* -------------------------------------------------------------------- json

\* The nested payloads a tool puts in result.content[0].text.
OkText == "{\"ok\":true}"
AgentsText == "{\"agents\":[\"a1\"],\"totalAgents\":1}"
MetricsText == "{\"swarmStats\":{\"tasks\":3},\"metricsSummary\":{\"cpu\":7}}"
\* The reply envelope of a tool whose text is t (a chunk).
ReplyWith(t) == JObj(<<"result">>, <<JObj(<<"content">>, <<JList(<<JObj(<<"text">>, <<JStr(<<t>>)>>)>>)>>)>>)

\* json.loads on the documents the model's child processes emit: each chunk
\* below is the JSON text named in its comment, mapped to its decoding.
JsonDocs ==
    \* {"ok":true}
       (OkText :> JObj(<<"ok">>, <<JBool(TRUE)>>))
    \* {}
    @@ ("{}" :> EmptyObj)
    \* {"agents":["a1"],"totalAgents":1}
    @@ (AgentsText :> JObj(<<"agents", "totalAgents">>, <<JList(<<JStr(<<"a1">>)>>), JNum(1)>>))
    \* {"swarmStats":{"tasks":3},"metricsSummary":{"cpu":7}}
    @@ (MetricsText :> JObj(<<"swarmStats", "metricsSummary">>,
                            <<JObj(<<"tasks">>, <<JNum(3)>>), JObj(<<"cpu">>, <<JNum(7)>>)>>))
    \* {"result":{"content":[{"text":"{\"ok\":true}"}]}}
    @@ ("R_ok" :> ReplyWith(OkText))
    @@ ("R_agents" :> ReplyWith(AgentsText))
    @@ ("R_metrics" :> ReplyWith(MetricsText))
    \* {"result":{"content":[{"text":"[]"}]}}
    @@ ("R_list" :> ReplyWith("[]"))
    \* {"jsonrpc":"2.0","id":1}
    @@ ("R_noresult" :> JObj(<<"jsonrpc", "id">>, <<JStr(<<"2.0">>), JNum(1)>>))
    \* {"result":{}}
    @@ ("R_nocontent" :> JObj(<<"result">>, <<EmptyObj>>))
    \* {"result":{"content":[]}}
    @@ ("R_emptycontent" :> JObj(<<"result">>, <<JObj(<<"content">>, <<JList(<<>>)>>)>>))
    \* {"result":{"content":[{}]}}
    @@ ("R_notext" :> JObj(<<"result">>, <<JObj(<<"content">>, <<JList(<<EmptyObj>>)>>)>>))
    \* {"result":{"content":[{"text":"oops"}]}}
    @@ ("R_badtext" :> ReplyWith("oops"))
    \* {"result":{"content":[{"text":5}]}}
    @@ ("R_numtext" :> JObj(<<"result">>, <<JObj(<<"content">>, <<JList(<<JObj(<<"text">>, <<JNum(5)>>)>>)>>)>>))
    \* {"result":null}
    @@ ("R_nullresult" :> JObj(<<"result">>, <<JNull>>))
    \* {"error":"boom"}
    @@ ("E_str" :> JObj(<<"error">>, <<JStr(<<"boom">>)>>))
    \* {"error":{"code":-32601,"message":"nf"}}
    @@ ("E_obj" :> JObj(<<"error">>, <<JObj(<<"code", "message">>, <<JNum(-32601), JStr(<<"nf">>)>>)>>))
    \* {"error":null}
    @@ ("E_null" :> JObj(<<"error">>, <<JNull>>))
    \* {"error":"boom","result":{"content":[{"text":"{\"ok\":true}"}]}}
    @@ ("E_both" :> JObj(<<"error", "result">>, <<JStr(<<"boom">>), ReplyWith(OkText).vals[1]>>))
    \* []
    @@ ("[]" :> JList(<<>>))
    \* 5
    @@ ("5" :> JNum(5))

\* The result of a step that may raise: a value, or an exception.
Value(v) == [raised |-> FALSE, value |-> v, type |-> "", status |-> 0, detail |-> JNull, msg |-> <<>>]
Raise(type, msg) == [raised |-> TRUE, value |-> JNull, type |-> type, status |-> 0, detail |-> JNull, msg |-> msg]

\* json.loads(t): leading and trailing whitespace is skipped; what is left
\* must be exactly one document.
json_loads(t) ==
    LET core == strip(t)
    IN IF core = <<>> \/ Head(core) \notin DOMAIN JsonDocs
       THEN Raise("JSONDecodeError", <<"Expecting value: line 1 column 1 (char 0)">>)
       ELSE IF Len(core) > 1
       THEN Raise("JSONDecodeError", <<"Extra data">>)
       ELSE Value(JsonDocs[Head(core)])


\* ------------------------------------------------------------ call_mcp_tool

Min(a, b) == IF a < b THEN a ELSE b

\* type(v).__name__
TypeName(v) ==
    CASE v.k = "null" -> "NoneType"
      [] v.k = "bool" -> "bool"
      [] v.k = "num" -> "int"
      [] v.k = "str" -> "str"
      [] v.k = "list" -> "list"
      [] OTHER -> "dict"

\* http.HTTPStatus(status).phrase
HTTPPhrase(status) ==
    CASE status = 500 -> "Internal Server Error"
      [] status = 504 -> "Gateway Timeout"
      [] OTHER -> "Error"

\* HTTPException(status, detail=detail): Starlette replaces a detail of None
\* by the status phrase.
HTTPException(status, detail) ==
    [raised |-> TRUE, value |-> JNull, type |-> "HTTPException", status |-> status,
     detail |-> IF detail = JNull THEN JStr(<<HTTPPhrase(status)>>) ELSE detail,
     msg |-> <<>>]

\* What str() of an HTTPException gives depends on the installed Starlette:
\* "status: detail" where HTTPException defines __str__, and the
\* positional constructor arguments, "status", where it does not.
StrFlavours == {"status_detail", "args"}

\* str(e)
ExcStr(e, flavour) ==
    IF e.type = "HTTPException"
    THEN IF flavour = "status_detail"
         THEN <<ToString(e.status), ":", SP>> \o PyStr(e.detail)
         ELSE <<ToString(e.status)>>
    ELSE e.msg

\* "error" in response
Contains(response, key) ==
    CASE response.k = "obj" -> Value(JBool(Has(response, key)))
      [] response.k = "list" -> Value(JBool(\E i \in 1..Len(response.vals) : response.vals[i] = JStr(<<key>>)))
      [] response.k = "str" -> Value(JBool(\E i \in 1..Len(response.s) : response.s[i] = key))
      [] OTHER -> Raise("TypeError", <<"argument of type '" \o TypeName(response) \o "' is not iterable">>)

\* v.get(key, default)
DotGet(v, key, default) ==
    IF v.k = "obj" THEN Value(GetOr(v, key, default))
    ELSE Raise("AttributeError", <<"'" \o TypeName(v) \o "' object has no attribute 'get'">>)

\* content[0], for a content that is true
Subscript0(content) ==
    CASE content.k = "list" -> Value(content.vals[1])
      [] content.k = "str" -> Value(JStr(<<content.s[1]>>))
      [] content.k = "obj" -> Raise("KeyError", <<"0">>)
      [] OTHER -> Raise("TypeError", <<"'" \o TypeName(content) \o "' object is not subscriptable">>)

\* json.loads(text) for a text that may not be a str
json_loads_value(text) ==
    IF text.k = "str" THEN json_loads(text.s)
    ELSE Raise("TypeError", <<"the JSON object must be str, bytes or bytearray, not " \o TypeName(text)>>)

\* call_mcp_tool_result without the json.loads of the text
ResultTextUndecoded(response) ==
    LET result == DotGet(response, "result", EmptyObj)
    IN IF result.raised THEN result
       ELSE LET content == DotGet(result.value, "content", JList(<<EmptyObj>>))
            IN IF content.raised THEN content
               ELSE IF ~Truthy(content.value) THEN Value(EmptyObj)
               ELSE LET first == Subscript0(content.value)
                    IN IF first.raised THEN first
                       ELSE DotGet(first.value, "text", JStr(<<"{}">>))

\* Lines 63-65: the value in result.content[0].text
call_mcp_tool_result(response) ==
    LET result == DotGet(response, "result", EmptyObj)
    IN IF result.raised THEN result
       ELSE LET content == DotGet(result.value, "content", JList(<<EmptyObj>>))
            IN IF content.raised THEN content
               ELSE IF ~Truthy(content.value) THEN Value(EmptyObj)
               ELSE LET first == Subscript0(content.value)
                    IN IF first.raised THEN first
                       ELSE LET text == DotGet(first.value, "text", JStr(<<"{}">>))
                            IN IF text.raised THEN text ELSE json_loads_value(text.value)

\* ReplyLine without the strip(): split("\n")[-1] of the raw text
LastRawLine(stdout) == Last(split(stdout, NL))

\* The line of standard output that is parsed (line 59).
ReplyLine(stdout) == Last(split(strip(stdout), NL))

\* StderrExcerpt without the [:500]
StderrWhole(stderr) == stderr

\* stderr.decode()[:500] (line 56); the pieces of stderr are single characters.
StderrExcerpt(stderr) == SubSeq(stderr, 1, Min(STDERR_LIMIT, Len(stderr)))

\* The error raised for a reply that has an "error" field (lines 60-61).
RemoteError(response) ==
    IF response.k = "obj" THEN HTTPException(500, Get(response, "error"))
    ELSE Raise("TypeError", <<TypeName(response) \o " indices must be integers">>)

\* Lines 55-65, the body of the try block once communicate() has returned:
\* the value returned, or the exception raised.
call_mcp_tool_try(returncode, stdout, stderr) ==
    IF returncode # 0
    THEN HTTPException(500, JStr(<<"VegaMCP error: ">> \o StderrExcerpt(stderr)))
    ELSE LET parsed == json_loads(ReplyLine(stdout))
         IN IF parsed.raised THEN parsed
            ELSE LET response == parsed.value
                     hasError == Contains(response, "error")
                 IN IF hasError.raised THEN hasError
                    ELSE IF hasError.value.b THEN RemoteError(response)
                    ELSE call_mcp_tool_result(response)

\* What a call hands to its caller.
Returned(v) == [kind |-> "return", status |-> 0, value |-> v]
Raised(e) == [kind |-> "raise", status |-> e.status, value |-> e.detail]

\* call_mcp_tool_except with `except Exception` as the first clause
ExceptGenericFirst(r, flavour) ==
    IF ~r.raised THEN Returned(r.value)
    ELSE Raised(HTTPException(500, JStr(ExcStr(r, flavour))))

\* Lines 67-72: the except clauses, applied to what the try block did.
call_mcp_tool_except(r, flavour) ==
    IF ~r.raised THEN Returned(r.value)
    ELSE IF r.type = "TimeoutError"
    THEN Raised(HTTPException(504, JStr(<<"VegaMCP request timed out">>)))
    ELSE IF r.type = "JSONDecodeError"
    THEN Raised(HTTPException(500, JStr(<<"Invalid response from VegaMCP: ">> \o ExcStr(r, flavour))))
    ELSE Raised(HTTPException(500, JStr(ExcStr(r, flavour))))


\* ------------------------------------------------- request models (pydantic)

\* One declared field: its type, whether it must be supplied, whether None
\* is accepted (Optional[...]), its default, and its ge/le range if any.
Required(name, type) ==
    [name |-> name, type |-> type, required |-> TRUE, nullable |-> FALSE,
     default |-> JNull, ranged |-> FALSE, ge |-> 0, le |-> 0]
Defaulted(name, type, default) ==
    [name |-> name, type |-> type, required |-> FALSE, nullable |-> FALSE,
     default |-> default, ranged |-> FALSE, ge |-> 0, le |-> 0]
Ranged(name, default, ge, le) ==
    [name |-> name, type |-> "int", required |-> FALSE, nullable |-> FALSE,
     default |-> JNum(default), ranged |-> TRUE, ge |-> ge, le |-> le]
OptionalField(name, type) ==
    [name |-> name, type |-> type, required |-> FALSE, nullable |-> TRUE,
     default |-> JNull, ranged |-> FALSE, ge |-> 0, le |-> 0]

\* CreateTaskRequest without the ge/le of priority and timeout
CreateTaskRequestUnranged ==
    << Required("task_type", "str"),
       Defaulted("priority", "int", JNum(2)),
       Defaulted("input_data", "dict", EmptyObj),
       OptionalField("target_agent", "str"),
       Defaulted("timeout", "int", JNum(300)) >>

CreateTaskRequest ==
    << Required("task_type", "str"),
       Ranged("priority", 2, 0, 3),
       Defaulted("input_data", "dict", EmptyObj),
       OptionalField("target_agent", "str"),
       Ranged("timeout", 300, 10, 3600) >>

BroadcastRequest ==
    << Required("message", "str"),
       OptionalField("coordinator", "str"),
       OptionalField("status", "str") >>

WorkflowRequest ==
    << OptionalField("template", "str"),
       OptionalField("custom_workflow", "dict"),
       Defaulted("input", "dict", EmptyObj),
       Defaulted("priority", "int", JNum(2)) >>

MemorySearchRequest ==
    << Required("query", "str"),
       OptionalField("domain", "str"),
       OptionalField("type", "str"),
       Ranged("limit", 10, 1, 100) >>

\* The Query(...) parameters of list_agents
ListAgentsQuery ==
    << OptionalField("coordinator", "str"),
       OptionalField("status", "str") >>

\* The Query(...) parameters of get_metrics
GetMetricsQuery ==
    << OptionalField("agent_id", "str"),
       OptionalField("metric_name", "str"),
       Defaulted("summary", "bool", JBool(FALSE)),
       Ranged("limit", 50, 1, 500) >>

NoParameters == <<>>

\* The declared parameters of each route of the model.
RouteModel(route) ==
    CASE route = "get_swarm_status" -> NoParameters
      [] route = "list_agents" -> ListAgentsQuery
      [] route = "broadcast_message" -> BroadcastRequest
      [] route = "create_task" -> CreateTaskRequest
      [] route = "execute_workflow" -> WorkflowRequest
      [] route = "get_metrics" -> GetMetricsQuery
      [] OTHER -> MemorySearchRequest

TypeOk(v, type) ==
    CASE type = "str" -> v.k = "str"
      [] type = "int" -> v.k = "num"
      [] type = "bool" -> v.k = "bool"
      [] OTHER -> v.k = "obj"

\* One field of the supplied data passes its declaration.
FieldValid(f, data) ==
    IF Has(data, f.name)
    THEN LET v == Get(data, f.name)
         IN IF v = JNull THEN f.nullable
            ELSE TypeOk(v, f.type) /\ (f.ranged => (f.ge <= v.n /\ v.n <= f.le))
    ELSE ~f.required

\* FastAPI's validation of a request against the route's declaration; a
\* request that fails is answered 422 and the route function is not called.
Validates(model, data) == \A i \in 1..Len(model) : FieldValid(model[i], data)

\* The validated object: every declared field, supplied or defaulted.
Parsed(model, data) ==
    [name \in {model[i].name : i \in 1..Len(model)} |->
        LET f == model[CHOOSE i \in 1..Len(model) : model[i].name = name]
        IN GetOr(data, name, f.default)]

\* ----------------------------------------------------------- route functions

\* PutIf without the `if value:`
PutAlways(args, key, value) == Put(args, key, value)

\* if value: args[key] = value
PutIf(args, key, value) == IF Truthy(value) THEN Put(args, key, value) ELSE args

ToolCall(tool, args) == [tool |-> tool, args |-> args]

\* Lines 143 and 144: the two calls of get_swarm_status.
StatusCall(n) ==
    IF n = 1 THEN ToolCall("swarm_list_agents", EmptyObj)
    ELSE ToolCall("swarm_get_metrics", JObj(<<"summary">>, <<JBool(TRUE)>>))

list_agents(q) ==
    ToolCall("swarm_list_agents",
             PutIf(PutIf(EmptyObj, "coordinator", q["coordinator"]), "status", q["status"]))

broadcast_message(request) ==
    ToolCall("swarm_broadcast",
             PutIf(PutIf(JObj(<<"message">>, <<request["message"]>>),
                         "coordinator", request["coordinator"]),
                   "status", request["status"]))

create_task(request) ==
    ToolCall("swarm_create_task",
             PutIf(JObj(<<"task_type", "priority", "input_data", "timeout">>,
                        <<request["task_type"], request["priority"],
                          request["input_data"], request["timeout"]>>),
                   "target_agent", request["target_agent"]))

execute_workflow(request) ==
    ToolCall("workflow_execute",
             PutIf(PutIf(JObj(<<"input", "priority">>, <<request["input"], request["priority"]>>),
                         "template", request["template"]),
                   "custom_workflow", request["custom_workflow"]))

get_metrics(q) ==
    ToolCall("swarm_get_metrics",
             PutIf(PutIf(JObj(<<"summary", "limit">>, <<q["summary"], q["limit"]>>),
                         "agent_id", q["agent_id"]),
                   "metric_name", q["metric_name"]))

search_memory(request) ==
    ToolCall("search_graph",
             PutIf(PutIf(JObj(<<"query", "limit">>, <<request["query"], request["limit"]>>),
                         "domain", request["domain"]),
                   "type", request["type"]))

\* The first call of a route function, from its validated parameters.
FirstCall(route, m) ==
    CASE route = "get_swarm_status" -> StatusCall(1)
      [] route = "list_agents" -> list_agents(m)
      [] route = "broadcast_message" -> broadcast_message(m)
      [] route = "create_task" -> create_task(m)
      [] route = "execute_workflow" -> execute_workflow(m)
      [] route = "get_metrics" -> get_metrics(m)
      [] OTHER -> search_memory(m)

\* Lines 33-38 and 49: the request written to the child.
Envelope(tool, args) ==
    JObj(<<"jsonrpc", "id", "method", "params">>,
         <<JStr(<<"2.0">>), JNum(1), JStr(<<"tools/call">>),
           JObj(<<"name", "arguments">>, <<JStr(<<tool>>), args>>)>>)
request_bytes(tool, args) == Flat(JsonDumps(Envelope(tool, args)))

\* An HTTP response.
Response(status, body) == [status |-> status, body |-> body]
NoResponse == Response(0, JNull)

\* Lines 145-150: the body get_swarm_status returns.  A result that is no
\* dict has no .get: the AttributeError leaves the route function and the
\* server answers 500.
StatusBody(agents, metrics) ==
    IF agents.k # "obj" \/ metrics.k # "obj"
    THEN Response(500, JStr(<<"Internal Server Error">>))
    ELSE Response(200,
            JObj(<<"agents", "totalAgents", "stats", "metricsSummary">>,
                 <<GetOr(agents, "agents", JList(<<>>)), GetOr(agents, "totalAgents", JNum(0)),
                   GetOr(metrics, "swarmStats", EmptyObj), GetOr(metrics, "metricsSummary", EmptyObj)>>))

\* FastAPI's answer to an HTTPException that leaves a route function.
ErrorResponse(outcome) == Response(outcome.status, JObj(<<"detail">>, <<outcome.value>>))


\* ------------------------------------------------------------------- state

VARIABLES
    starlette,  \* which str() the installed HTTPException has (a StrFlavours)
    request,    \* request[r]: the HTTP request task r is serving
    rpc,        \* rpc[r]: "idle", "calling" (inside call_mcp_tool) or "responded"
    stage,      \* stage[r]: which call of its route function r is in (1 or 2)
    call,       \* call[r]: the running call_mcp_tool frame of r
    agents,     \* agents[r]: the local `agents` of get_swarm_status
    outcome,    \* outcome[r]: what r's latest finished call returned or raised
    response,   \* response[r]: the HTTP response sent
    children    \* every child process spawned so far, by pid

vars == <<starlette, request, rpc, stage, call, agents, outcome, response, children>>

Requests == 1..NumRequests

NoRequest == [route |-> "", data |-> JNull]
NoCall == [pc |-> "none", tool |-> "", args |-> JNull, proc |-> 0, spawns |-> 0, ended |-> ""]
NoOutcome == [kind |-> "", status |-> 0, value |-> JNull]

Init ==
    /\ starlette \in StrFlavours
    /\ request = [r \in Requests |-> NoRequest]
    /\ rpc = [r \in Requests |-> "idle"]
    /\ stage = [r \in Requests |-> 0]
    /\ call = [r \in Requests |-> NoCall]
    /\ agents = [r \in Requests |-> JNull]
    /\ outcome = [r \in Requests |-> NoOutcome]
    /\ response = [r \in Requests |-> NoResponse]
    /\ children = <<>>

\* A frame of call_mcp_tool at its first line.  proc is the local `proc`
\* (0 while unbound); spawns counts the times line 40 ran in this frame and
\* ended tells how the frame was left ("spawn", "exit" or "timeout").
Enter(tc) ==
    [pc |-> "spawn", tool |-> tc.tool, args |-> tc.args, proc |-> 0, spawns |-> 0, ended |-> ""]

\* create_subprocess_exec handing out the child that is already there
ReuseChild(procs, r, n) ==
    IF procs = <<>>
    THEN <<[state |-> "running", stdin |-> <<>>, returncode |-> 0,
            stdout |-> <<>>, stderr |-> <<>>, owner |-> r, seq |-> n]>>
    ELSE procs

\* asyncio.create_subprocess_exec (lines 40-46): a fresh child with its own
\* three pipes, owned by call n of request r; proc is its pid.
create_subprocess_exec(procs, r, n) ==
    Append(procs, [state |-> "running", stdin |-> <<>>, returncode |-> 0,
                   stdout |-> <<>>, stderr |-> <<>>, owner |-> r, seq |-> n])

\* The HTTP response of a route whose (last) call ended with outcome o.
RouteResponse(r, o) ==
    IF o.kind = "raise" THEN ErrorResponse(o)
    ELSE IF request[r].route = "get_swarm_status" THEN StatusBody(agents[r], o.value)
    ELSE Response(200, o.value)

\* Finish with get_swarm_status going on to its second call whatever the
\* first did
FinishRegardless(r, o, how) ==
    /\ outcome' = [outcome EXCEPT ![r] = o]
    /\ IF request[r].route = "get_swarm_status" /\ stage[r] = 1
       THEN /\ agents' = [agents EXCEPT ![r] = o.value]
            /\ stage' = [stage EXCEPT ![r] = 2]
            /\ call' = [call EXCEPT ![r] = Enter(StatusCall(2))]
            /\ UNCHANGED <<rpc, response>>
       ELSE /\ call' = [call EXCEPT ![r].pc = "done", ![r].ended = how,
                                     ![r].spawns = IF how = "spawn" THEN @ + 1 ELSE @]
            /\ rpc' = [rpc EXCEPT ![r] = "responded"]
            /\ response' = [response EXCEPT ![r] = RouteResponse(r, o)]
            /\ UNCHANGED <<agents, stage>>

\* call_mcp_tool hands o to the route function of r, which runs to its next
\* await or to its end: get_swarm_status goes on to its second call when
\* the first returned, every other return or raise ends the request.
Finish(r, o, how) ==
    /\ outcome' = [outcome EXCEPT ![r] = o]
    /\ IF request[r].route = "get_swarm_status" /\ stage[r] = 1 /\ o.kind = "return"
       THEN /\ agents' = [agents EXCEPT ![r] = o.value]
            /\ stage' = [stage EXCEPT ![r] = 2]
            /\ call' = [call EXCEPT ![r] = Enter(StatusCall(2))]
            /\ UNCHANGED <<rpc, response>>
       ELSE /\ call' = [call EXCEPT ![r].pc = "done", ![r].ended = how,
                                     ![r].spawns = IF how = "spawn" THEN @ + 1 ELSE @]
            /\ rpc' = [rpc EXCEPT ![r] = "responded"]
            /\ response' = [response EXCEPT ![r] = RouteResponse(r, o)]
            /\ UNCHANGED <<agents, stage>>

\* A request arrives at task r: FastAPI validates it; a valid one enters
\* its route function, which builds the arguments and calls call_mcp_tool.
Receive(r, req) ==
    /\ rpc[r] = "idle"
    /\ request' = [request EXCEPT ![r] = req]
    /\ IF Validates(RouteModel(req.route), req.data)
       THEN /\ rpc' = [rpc EXCEPT ![r] = "calling"]
            /\ stage' = [stage EXCEPT ![r] = 1]
            /\ call' = [call EXCEPT ![r] =
                   Enter(FirstCall(req.route, Parsed(RouteModel(req.route), req.data)))]
            /\ UNCHANGED response
       ELSE /\ rpc' = [rpc EXCEPT ![r] = "responded"]
            /\ response' = [response EXCEPT ![r] =
                   Response(422, JObj(<<"detail">>, <<JStr(<<"validation error">>)>>))]
            /\ UNCHANGED <<stage, call>>
    /\ UNCHANGED <<starlette, agents, outcome, children>>

\* Line 40 succeeds.
SpawnChild(r) ==
    /\ call[r].pc = "spawn"
    /\ children' = create_subprocess_exec(children, r, stage[r])
    /\ call' = [call EXCEPT ![r].pc = "communicate", ![r].proc = Len(children'),
                             ![r].spawns = @ + 1]
    /\ UNCHANGED <<starlette, request, rpc, stage, agents, outcome, response>>

\* Line 40 raises (no `node` on the PATH, no such working directory): the
\* last except clause turns the OSError into a 500.
SpawnFails(r) ==
    /\ call[r].pc = "spawn"
    /\ Finish(r, call_mcp_tool_except(
                     Raise("FileNotFoundError", <<"[Errno 2] No such file or directory: 'node'">>),
                     starlette), "spawn")
    /\ UNCHANGED <<starlette, request, children>>

\* proc.communicate(request_bytes) writes the request and closes stdin.
WriteStdin(r) ==
    /\ call[r].pc = "communicate"
    /\ children' = [children EXCEPT ![call[r].proc].stdin =
                        @ \o <<request_bytes(call[r].tool, call[r].args), "EOF">>]
    /\ call' = [call EXCEPT ![r].pc = "wait"]
    /\ UNCHANGED <<starlette, request, rpc, stage, agents, outcome, response>>

\* Child p exits with a status, having written out and err.
ChildExit(p, o) ==
    /\ children[p].state = "running"
    /\ children' = [children EXCEPT ![p].state = "exited", ![p].returncode = o.returncode,
                                    ![p].stdout = o.stdout, ![p].stderr = o.stderr]
    /\ UNCHANGED <<starlette, request, rpc, stage, call, agents, outcome, response>>

\* communicate() returns once the child has exited and its pipes are
\* drained; lines 55-72 then run without another await.
CommunicateReturns(r) ==
    /\ call[r].pc = "wait"
    /\ children[call[r].proc].state = "exited"
    /\ LET c == children[call[r].proc]
       IN Finish(r, call_mcp_tool_except(
                        call_mcp_tool_try(c.returncode, c.stdout, c.stderr), starlette), "exit")
    /\ UNCHANGED <<starlette, request, children>>

\* wait_for gives up after 30 seconds with the child still running: it
\* cancels communicate() and raises TimeoutError (lines 50-53, 67-68).
\* Nothing in call_mcp_tool signals or reaps the child.  communicate()
\* writes a request that fits the pipe buffer in its first step, so the
\* timer cannot fire before the write.
Timeout(r) ==
    /\ call[r].pc = "wait"
    /\ children[call[r].proc].state = "running"
    /\ Finish(r, call_mcp_tool_except(Raise("TimeoutError", <<>>), starlette), "timeout")
    /\ UNCHANGED <<starlette, request, children>>


\* ------------------------------------------------------------------ inputs

\* What a child has done when it exits.
Output(returncode, stdout, stderr) == [returncode |-> returncode, stdout |-> stdout, stderr |-> stderr]

\* A standard-error text of n characters (the digits of their positions).
Stderr(n) == [i \in 1..n |-> ToString(i % 10)]
StderrLengths == {0, 1} \cup ((STDERR_LIMIT - 1)..(STDERR_LIMIT + MaxStderrExtra))
NonZeroCodes == {1, -9}

\* Standard-output texts of every layout: lines of diagnostics, replies,
\* blanks and spaces in any order.
LayoutPieces == {NL, SP, "log", "R_ok", "E_str"}
LayoutTexts == UNION {[1..m -> LayoutPieces] : m \in 0..MaxStdoutLen}
\* Every document of the catalogue, alone and after a diagnostic line.
CatalogueTexts == {<<d>> : d \in DOMAIN JsonDocs} \cup {<<"log", NL, d, NL>> : d \in DOMAIN JsonDocs}

RichOutputs ==
    {Output(0, t, <<>>) : t \in LayoutTexts \cup CatalogueTexts}
    \cup {Output(0, <<"R_ok">>, Stderr(1))}
    \cup {Output(c, t, Stderr(n)) : c \in NonZeroCodes, t \in {<<>>, <<"R_ok">>}, n \in StderrLengths}

FewOutputs ==
    {Output(0, <<"R_agents">>, <<>>), Output(0, <<"E_str">>, <<>>), Output(1, <<>>, Stderr(1))}

RouteOutputs ==
    FewOutputs \cup {Output(0, <<"R_metrics">>, <<>>), Output(0, <<"R_list">>, <<>>),
                     Output(0, <<"log">>, <<>>)}

RECURSIVE Supplied(_, _)
\* The data of a request: choice[i] is <<>> when field names[i] is not
\* supplied and <<v>> when it is supplied with the value v.
Supplied(names, choice) ==
    IF names = <<>> THEN EmptyObj
    ELSE LET rest == Supplied(Tail(names), Tail(choice))
         IN IF Head(choice) = <<>> THEN rest
            ELSE JObj(<<Head(names)>> \o rest.keys, <<Head(choice)[1]>> \o rest.vals)

Req(route, data) == [route |-> route, data |-> data]

Opt(values) == {<<>>} \cup {<<v>> : v \in values}
OptStrings(word) == Opt({JNull, JStr(<<>>), JStr(<<word>>)})
OptNums(ns) == Opt({JNum(n) : n \in ns})
SomeDict == JObj(<<"q">>, <<JStr(<<"x">>)>>)

StatusRequests == {Req("get_swarm_status", EmptyObj)}
ListAgentsRequests ==
    {Req("list_agents", Supplied(<<"coordinator", "status">>, <<c, s>>)) :
        c \in OptStrings("research"), s \in OptStrings("idle")}
BroadcastRequests ==
    {Req("broadcast_message", Supplied(<<"message", "coordinator", "status">>, <<m, c, s>>)) :
        m \in Opt({JStr(<<"hi">>)}), c \in OptStrings("research"), s \in OptStrings("idle")}
CreateTaskRequests ==
    {Req("create_task", Supplied(<<"task_type", "priority", "input_data", "target_agent", "timeout">>,
                                 <<t, p, i, a, d>>)) :
        t \in Opt({JStr(<<"research">>)}), p \in OptNums({-1, 0, 3, 4, 5}),
        i \in Opt({SomeDict}), a \in OptStrings("a1"), d \in OptNums({9, 10, 3600, 3601})}
WorkflowRequests ==
    {Req("execute_workflow", Supplied(<<"template", "custom_workflow", "input", "priority">>,
                                      <<t, w, i, p>>)) :
        t \in OptStrings("t1"), w \in Opt({JNull, EmptyObj, SomeDict}),
        i \in Opt({SomeDict}), p \in OptNums({1})}
MetricsRequests ==
    {Req("get_metrics", Supplied(<<"agent_id", "metric_name", "summary", "limit">>, <<a, m, s, l>>)) :
        a \in OptStrings("a1"), m \in OptStrings("cpu"),
        s \in Opt({JBool(TRUE)}), l \in OptNums({0, 1, 500, 501})}
SearchRequests ==
    {Req("search_memory", Supplied(<<"query", "domain", "type", "limit">>, <<q, d, t, l>>)) :
        q \in Opt({JStr(<<"vega">>)}), d \in OptStrings("ops"),
        t \in OptStrings("agent"), l \in OptNums({0, 1, 100, 101})}

RichRequests ==
    StatusRequests \cup ListAgentsRequests \cup BroadcastRequests \cup CreateTaskRequests
    \cup WorkflowRequests \cup MetricsRequests \cup SearchRequests

\* POST /tasks {"task_type":"research","priority":5}
PriorityFive == Req("create_task", JObj(<<"task_type", "priority">>, <<JStr(<<"research">>), JNum(5)>>))

FewRequests == {Req("list_agents", EmptyObj), PriorityFive}

CallRequests == {Req("list_agents", EmptyObj), PriorityFive}

\* ----------------------------------------------------------- specifications

\* The server with NumRequests requests in flight at once.
Next ==
    \/ \E r \in Requests, q \in FewRequests : Receive(r, q)
    \/ \E r \in Requests : SpawnChild(r)
    \/ \E r \in Requests : SpawnFails(r)
    \/ \E r \in Requests : WriteStdin(r)
    \/ \E p \in 1..Len(children), o \in FewOutputs : ChildExit(p, o)
    \/ \E r \in Requests : CommunicateReturns(r)
    \/ \E r \in Requests : Timeout(r)

Spec == Init /\ [][Next]_vars

\* One call at a time, against every output a child can produce.
NextCall ==
    \/ \E q \in CallRequests : Receive(1, q)
    \/ SpawnChild(1)
    \/ SpawnFails(1)
    \/ WriteStdin(1)
    \/ \E p \in 1..Len(children), o \in RichOutputs : ChildExit(p, o)
    \/ CommunicateReturns(1)
    \/ Timeout(1)

SpecCall == Init /\ [][NextCall]_vars

\* One request at a time, of every route and shape.
NextRoute ==
    \/ \E q \in RichRequests : Receive(1, q)
    \/ SpawnChild(1)
    \/ SpawnFails(1)
    \/ WriteStdin(1)
    \/ \E p \in 1..Len(children), o \in RouteOutputs : ChildExit(p, o)
    \/ CommunicateReturns(1)
    \/ Timeout(1)

SpecRoute == Init /\ [][NextRoute]_vars


\* ------------------------------------------------------ vocabulary of claims

Max(S) == CHOOSE m \in S : \A n \in S : n <= m
Least(S) == CHOOSE m \in S : \A n \in S : m <= n

\* The last line of t that holds something other than spaces, whole; the
\* empty text when t has no such line.
FinalNonEmptyLine(t) ==
    LET solid == {i \in 1..Len(t) : t[i] \notin {NL, SP}}
    IN IF solid = {} THEN <<>>
       ELSE LET last == Max(solid)
                from == Max({0} \cup {j \in 1..last : t[j] = NL})
                to == Least({Len(t) + 1} \cup {j \in last..Len(t) : t[j] = NL})
            IN SubSeq(t, from + 1, to - 1)

\* The chunks of a line, its white space dropped.
Solid(line) == SelectSeq(line, LAMBDA p : p \notin {NL, SP})
\* The line is one JSON document, white space around it allowed.
IsJson(line) == Len(Solid(line)) = 1 /\ Solid(line)[1] \in DOMAIN JsonDocs
\* Its decoding.
Doc(line) == JsonDocs[Solid(line)[1]]

\* The calls that ended because their child exited, and their child.
EndedByExit(r) == call[r].pc = "done" /\ call[r].ended = "exit"
OwnChild(r) == children[call[r].proc]
\* The children spawned for call n of request r.
ChildrenOf(r, n) == {p \in 1..Len(children) : children[p].owner = r /\ children[p].seq = n}

\* A failure of the given status whose detail is a message starting with lead.
FailsWith(o, status, lead) ==
    /\ o.kind = "raise" /\ o.status = status
    /\ o.value.k = "str" /\ o.value.s # <<>> /\ Head(o.value.s) = lead

InvalidResponse == "Invalid response from VegaMCP: "

\* ---------------------------------------------------------------------- C1

\* C1: once a call_mcp_tool invocation has returned or raised, on whatever
\* path, the child spawned for it is no longer running: a running child
\* always belongs to a call that is still waiting for it.
C1_NoChildOutlivesItsCall ==
    \A p \in 1..Len(children) :
        children[p].state = "running" =>
            LET r == children[p].owner
            IN call[r].proc = p /\ call[r].pc \in {"communicate", "wait"}

\* ---------------------------------------------------------------------- C2

\* C2: when the child exits 0 and the last line of its stdout is an object
\* with an "error" field, the call fails with status 500 and its detail is
\* that field's value itself.
C2_RemoteErrorVerbatim ==
    \A r \in Requests :
        (/\ EndedByExit(r)
         /\ OwnChild(r).returncode = 0
         /\ IsJson(FinalNonEmptyLine(OwnChild(r).stdout))
         /\ Doc(FinalNonEmptyLine(OwnChild(r).stdout)).k = "obj"
         /\ Has(Doc(FinalNonEmptyLine(OwnChild(r).stdout)), "error"))
        => outcome[r] = [kind |-> "raise", status |-> 500,
                         value |-> Get(Doc(FinalNonEmptyLine(OwnChild(r).stdout)), "error")]

\* ---------------------------------------------------------------------- C3

\* The text in result.content[0].text of a reply, when it is there.
HasNestedText(doc) ==
    /\ doc.k = "obj" /\ Has(doc, "result") /\ Get(doc, "result").k = "obj"
    /\ Has(Get(doc, "result"), "content")
    /\ Get(Get(doc, "result"), "content").k = "list"
    /\ Get(Get(doc, "result"), "content").vals # <<>>
    /\ Get(Get(doc, "result"), "content").vals[1].k = "obj"
    /\ Has(Get(Get(doc, "result"), "content").vals[1], "text")
NestedText(doc) == Get(Get(Get(doc, "result"), "content").vals[1], "text")

\* C3: a finished call has either returned a value or raised a failure,
\* never both; the failure's status is 504 exactly when the timeout ended
\* the call and 500 for a failed spawn, a non-zero exit, an unparseable
\* last line, an unparseable nested text and a reply with an "error"
\* field; a failure reaches the HTTP caller with that status and without
\* a value, and the call ran line 40 once (no retry).
C3_OneOutcomePerCall ==
    \A r \in Requests :
        call[r].pc = "done" =>
            LET o == outcome[r]
                line == FinalNonEmptyLine(OwnChild(r).stdout)
            IN /\ o.kind \in {"return", "raise"}
               /\ o.kind = "return" => o.status = 0
               /\ o.kind = "raise" => o.status \in {500, 504}
               /\ (o.kind = "raise" /\ o.status = 504) <=> call[r].ended = "timeout"
               /\ call[r].ended = "spawn" => o.kind = "raise" /\ o.status = 500
               /\ call[r].ended = "exit" =>
                    /\ OwnChild(r).returncode # 0 => o.kind = "raise"
                    /\ (OwnChild(r).returncode = 0 /\ ~IsJson(line)) => o.kind = "raise"
                    /\ (OwnChild(r).returncode = 0 /\ IsJson(line) /\ Doc(line).k = "obj"
                            /\ Has(Doc(line), "error")) => o.kind = "raise"
                    /\ (OwnChild(r).returncode = 0 /\ IsJson(line) /\ HasNestedText(Doc(line))
                            /\ NestedText(Doc(line)).k = "str"
                            /\ ~IsJson(NestedText(Doc(line)).s)) => o.kind = "raise"
               /\ o.kind = "raise" =>
                    response[r] = Response(o.status, JObj(<<"detail">>, <<o.value>>))
               /\ (o.kind = "return" /\ request[r].route # "get_swarm_status") =>
                    response[r] = Response(200, o.value)
               /\ call[r].spawns = 1

\* A call that timed out and was answered 504.
C3_Witness ==
    \E r \in Requests :
        /\ call[r].pc = "done" /\ call[r].ended = "timeout"
        /\ outcome[r].kind = "raise" /\ response[r].status = 504

\* ---------------------------------------------------------------------- C4

Digits == {ToString(d) : d \in 0..9}
\* The characters of the child's stderr that a message carries.
StderrCarried(message) == SelectSeq(message, LAMBDA p : p \in Digits)

\* C4: a call whose child exited non-zero fails with status 500, whatever
\* the child wrote to stdout, and the stderr characters in its message are
\* a prefix of the child's stderr of at most 500 characters.
C4_NonZeroExitFails ==
    \A r \in Requests :
        (EndedByExit(r) /\ OwnChild(r).returncode # 0) =>
            /\ outcome[r].kind = "raise" /\ outcome[r].status = 500
            /\ outcome[r].value.k = "str"
            /\ LET carried == StderrCarried(outcome[r].value.s)
               IN /\ Len(carried) <= STDERR_LIMIT
                  /\ Len(carried) <= Len(OwnChild(r).stderr)
                  /\ carried = SubSeq(OwnChild(r).stderr, 1, Len(carried))

\* A non-zero exit with a well-formed reply on stdout and more than 500
\* characters on stderr, reported with the first 500 of them.
C4_Witness ==
    \E r \in Requests :
        /\ EndedByExit(r) /\ OwnChild(r).returncode # 0
        /\ OwnChild(r).stdout = <<"R_ok">>
        /\ Len(OwnChild(r).stderr) > STDERR_LIMIT
        /\ outcome[r].kind = "raise"
        /\ Len(StderrCarried(outcome[r].value.s)) = STDERR_LIMIT

\* ---------------------------------------------------------------------- C5

\* C5: a call runs line 40 once; a call that spawned has exactly one
\* child, its own, and no other call, concurrent or not, has that child;
\* what a child is sent is nothing, or exactly one envelope, that of its
\* own call, followed by end-of-input; and the outcome of a call that
\* waited for its child is decided by that child's exit status and output.
C5_OneChildPerCall ==
    /\ \A r \in Requests :
        /\ call[r].pc \in {"none", "spawn"} => (call[r].spawns = 0 /\ call[r].proc = 0)
        /\ call[r].pc \in {"communicate", "wait", "done"} => call[r].spawns = 1
        /\ call[r].proc = 0 => ChildrenOf(r, stage[r]) = {}
        /\ call[r].proc # 0 =>
            /\ ChildrenOf(r, stage[r]) = {call[r].proc}
            /\ OwnChild(r).stdin =
                 IF call[r].pc = "communicate" THEN <<>>
                 ELSE <<request_bytes(call[r].tool, call[r].args), "EOF">>
        /\ EndedByExit(r) =>
             outcome[r] = call_mcp_tool_except(
                              call_mcp_tool_try(OwnChild(r).returncode, OwnChild(r).stdout,
                                                OwnChild(r).stderr), starlette)
    /\ \A r1, r2 \in Requests :
        (r1 # r2 /\ call[r1].proc # 0) => call[r1].proc # call[r2].proc
    /\ \A p \in 1..Len(children) : Len(children[p].stdin) <= 2

\* Two calls in flight at once, each waiting for its own child, the two
\* children having exited differently.
C5_Witness ==
    \E r1, r2 \in Requests :
        /\ r1 # r2
        /\ call[r1].pc = "wait" /\ call[r2].pc = "wait"
        /\ OwnChild(r1).state = "exited" /\ OwnChild(r2).state = "exited"
        /\ OwnChild(r1).returncode = 0 /\ OwnChild(r2).returncode # 0

\* ---------------------------------------------------------------------- C6

\* What a call returns or raises when its child exits 0 having written
\* only this line.
OutcomeOfLine(line, stderr) ==
    call_mcp_tool_except(call_mcp_tool_try(0, line, stderr), starlette)

\* C6: when the child exits 0, the outcome is that of its final non-empty
\* line alone (a line of spaces counts as empty), so two stdout texts with
\* the same final non-empty line end the same way whatever comes before
\* and whatever blank lines come after; a final line that is no JSON,
\* and a stdout with no line at all, fail with 500 as an invalid response.
C6_OnlyFinalLineCounts ==
    \A r \in Requests :
        (EndedByExit(r) /\ OwnChild(r).returncode = 0) =>
            LET line == FinalNonEmptyLine(OwnChild(r).stdout)
            IN /\ outcome[r] = OutcomeOfLine(line, OwnChild(r).stderr)
               /\ ~IsJson(line) => FailsWith(outcome[r], 500, InvalidResponse)

\* An error reply on an earlier line, the real reply on the final line
\* and a newline after it: the call returns the real reply's value.
C6_Witness ==
    \E r \in Requests :
        /\ EndedByExit(r) /\ OwnChild(r).returncode = 0
        /\ OwnChild(r).stdout = <<"E_str", NL, "R_ok", NL>>
        /\ outcome[r] = Returned(JsonDocs[OkText])

\* ---------------------------------------------------------------------- C7

\* "result", "content", its first element or that element's "text" is absent.
TextAbsent(doc) ==
    \/ ~Has(doc, "result")
    \/ /\ Get(doc, "result").k = "obj"
       /\ \/ ~Has(Get(doc, "result"), "content")
          \/ /\ Get(Get(doc, "result"), "content").k = "list"
             /\ \/ Get(Get(doc, "result"), "content").vals = <<>>
                \/ /\ Get(Get(doc, "result"), "content").vals[1].k = "obj"
                   /\ ~Has(Get(Get(doc, "result"), "content").vals[1], "text")

\* C7: for a reply object with no "error" field the call returns the JSON
\* decoding of result.content[0].text; it returns the empty object when
\* "result", "content", the first element or its "text" is absent; and a
\* text that is no JSON fails with 500 as an invalid response.
C7_ReturnsDecodedText ==
    \A r \in Requests :
        (/\ EndedByExit(r) /\ OwnChild(r).returncode = 0
         /\ IsJson(FinalNonEmptyLine(OwnChild(r).stdout))
         /\ Doc(FinalNonEmptyLine(OwnChild(r).stdout)).k = "obj"
         /\ ~Has(Doc(FinalNonEmptyLine(OwnChild(r).stdout)), "error"))
        => LET doc == Doc(FinalNonEmptyLine(OwnChild(r).stdout))
           IN /\ TextAbsent(doc) => outcome[r] = Returned(EmptyObj)
              /\ (HasNestedText(doc) /\ NestedText(doc).k = "str") =>
                    IF IsJson(NestedText(doc).s)
                    THEN outcome[r] = Returned(Doc(NestedText(doc).s))
                    ELSE FailsWith(outcome[r], 500, InvalidResponse)

\* The reply {"result":{"content":[{"text":"{\"ok\":true}"}]}} yields {"ok": true}.
C7_Witness ==
    \E r \in Requests :
        /\ EndedByExit(r) /\ OwnChild(r).returncode = 0
        /\ OwnChild(r).stdout = <<"R_ok">>
        /\ outcome[r] = Returned(JObj(<<"ok">>, <<JBool(TRUE)>>))


\* ---------------------------------------------------------------------- C8

InRange(d, name, lo, hi) == Has(d, name) => (lo <= Get(d, name).n /\ Get(d, name).n <= hi)
\* A POST /tasks body that lacks task_type, or whose priority or timeout
\* is out of range.
BadTask(d) ==
    \/ ~Has(d, "task_type")
    \/ ~InRange(d, "priority", 0, 3)
    \/ ~InRange(d, "timeout", 10, 3600)

\* Request r never reached the bridge: no call frame, no child, no outcome.
BridgeUntouched(r) ==
    /\ call[r] = NoCall
    /\ outcome[r] = NoOutcome
    /\ \A p \in 1..Len(children) : children[p].owner # r

\* C8: a POST /tasks request that lacks task_type or whose priority is
\* outside 0..3 or whose timeout is outside 10..3600 is answered 422, and
\* no request answered 422 has invoked call_mcp_tool or spawned a child.
C8_InvalidRequestNeverCalls ==
    \A r \in Requests :
        /\ (rpc[r] # "idle" /\ request[r].route = "create_task" /\ BadTask(request[r].data)) =>
              (rpc[r] = "responded" /\ response[r].status = 422)
        /\ response[r].status = 422 => BridgeUntouched(r)

\* POST /tasks {"task_type":"research","priority":5} was answered 422.
C8_Witness ==
    \E r \in Requests :
        /\ request[r] = PriorityFive
        /\ response[r].status = 422
        /\ BridgeUntouched(r)

\* ---------------------------------------------------------------------- C9

OptionalRoutes ==
    {"list_agents", "broadcast_message", "create_task", "execute_workflow",
     "get_metrics", "search_memory"}

\* Request r, of a route with optional fields, has passed its arguments
\* to the bridge.
PassedArgs(r) == request[r].route \in OptionalRoutes /\ call[r].pc # "none"

\* The request supplies the field (an explicit null supplies nothing).
Supplies(d, name) == Has(d, name) /\ Get(d, name) # JNull
\* The request supplies the field with the empty string or the empty object.
SuppliesEmpty(d, name) == Has(d, name) /\ Get(d, name) \in {JStr(<<>>), EmptyObj}

\* C9 as claimed: the argument map holds every field the request supplied,
\* under its key and with its value, and no key for an optional field the
\* request did not supply.
C9_ArgsMirrorRequest ==
    \A r \in Requests :
        PassedArgs(r) =>
            \A i \in 1..Len(RouteModel(request[r].route)) :
                LET f == RouteModel(request[r].route)[i]
                    d == request[r].data
                IN /\ Supplies(d, f.name) =>
                        (Has(call[r].args, f.name) /\ Get(call[r].args, f.name) = Get(d, f.name))
                   /\ (f.nullable /\ ~Supplies(d, f.name)) => ~Has(call[r].args, f.name)

\* C9 as amended: the argument map holds every supplied field under its
\* key and with its value, except an optional field supplied as the empty
\* string or the empty object, which is left out like an optional field
\* that was not supplied; no optional field that is left out has a key.
C9_ArgsMirrorNonEmpty ==
    \A r \in Requests :
        PassedArgs(r) =>
            \A i \in 1..Len(RouteModel(request[r].route)) :
                LET f == RouteModel(request[r].route)[i]
                    d == request[r].data
                    kept == Supplies(d, f.name) /\ ~(f.nullable /\ SuppliesEmpty(d, f.name))
                IN /\ kept => (Has(call[r].args, f.name) /\ Get(call[r].args, f.name) = Get(d, f.name))
                   /\ (f.nullable /\ ~kept) => ~Has(call[r].args, f.name)

\* GET /agents?coordinator=research&status= reached the bridge with the
\* coordinator and without a status key.
C9_Witness ==
    \E r \in Requests :
        /\ PassedArgs(r)
        /\ request[r] = Req("list_agents", JObj(<<"coordinator", "status">>,
                                               <<JStr(<<"research">>), JStr(<<>>)>>))
        /\ call[r].args = JObj(<<"coordinator">>, <<JStr(<<"research">>)>>)

\* --------------------------------------------------------------------- C10

\* What the child of a finished call made the call return or raise.
OutcomeOfChild(p) ==
    call_mcp_tool_except(
        call_mcp_tool_try(children[p].returncode, children[p].stdout, children[p].stderr),
        starlette)

Sent(p, tool, args) == children[p].stdin \in {<<>>, <<request_bytes(tool, args), "EOF">>}

\* C10: GET /status calls swarm_list_agents, then swarm_get_metrics; the
\* second child exists only once the first call has returned a value, so
\* at most one child of the request runs at a time; when the first call
\* fails no second child is spawned and the response is the failure alone.
C10_StatusCallsInSequence ==
    \A r \in Requests :
        request[r].route = "get_swarm_status" =>
            LET first == ChildrenOf(r, 1)
                second == ChildrenOf(r, 2)
            IN /\ Cardinality(first) <= 1 /\ Cardinality(second) <= 1
               /\ \A p \in first : Sent(p, "swarm_list_agents", EmptyObj)
               /\ \A q \in second : Sent(q, "swarm_get_metrics", JObj(<<"summary">>, <<JBool(TRUE)>>))
               /\ second # {} =>
                    /\ first # {}
                    /\ \A p \in first :
                        /\ children[p].state = "exited"
                        /\ OutcomeOfChild(p) = Returned(agents[r])
                        /\ \A q \in second : p < q
               /\ Cardinality({p \in first \cup second : children[p].state = "running"}) <= 1
               /\ (rpc[r] = "responded" /\ stage[r] = 1) =>
                    /\ second = {}
                    /\ outcome[r].kind = "raise"
                    /\ response[r] = Response(outcome[r].status, JObj(<<"detail">>, <<outcome[r].value>>))

\* A /status request answered 200 from the values of its two children.
C10_Witness ==
    \E r \in Requests :
        /\ request[r].route = "get_swarm_status" /\ rpc[r] = "responded"
        /\ ChildrenOf(r, 1) # {} /\ ChildrenOf(r, 2) # {}
        /\ response[r] = Response(200,
              JObj(<<"agents", "totalAgents", "stats", "metricsSummary">>,
                   <<JList(<<JStr(<<"a1">>)>>), JNum(1),
                     JObj(<<"tasks">>, <<JNum(3)>>), JObj(<<"cpu">>, <<JNum(7)>>)>>))


====
